---- MODULE Spec2Model ----
(***************************************************************************)
(* Fork-chain and engagement aggregation of the Receipts backend.          *)
(*                                                                         *)
(* The store is the receipts / reactions / evidence_items tables.  Every   *)
(* service method is cut at its database statements: one step is one       *)
(* statement (or one flush + commit), which is the unit at which requests  *)
(* running on independent connections interleave.  Spec interleaves the    *)
(* steps of NumProcs requests and of the reconciliation script; SpecSeq    *)
(* runs every service method to completion, one after the other.           *)
(***************************************************************************)
EXTENDS Integers, Sequences, FiniteSets, TLC

\* ---------------------------------------------------------------- bounds
MaxNodes == 3
NumUsers == 2
NumProcs == 2
MaxTime == 1
MaxEvidence == 1
MaxDepth == 2
NumTypes == 2
MaxCalls == 3
MaxSeqCalls == 4
MaxSkip == 2
MaxLimit == 2
MaxHours == 2
MaxListReactions == 2
MaxDriftNodes == 1
MaxDriftCalls == 3

\* ------------------------------------------------------------- constants
NULL == 0
Visibilities == {"public", "unlisted"}
\* class ReactionType, in declaration order; the model reacts with the first NumTypes.
ReactionType == <<"support", "dispute", "bookmark">>
ReactionTypes == {ReactionType[i] : i \in 1..NumTypes}

Users == 1..NumUsers
Procs == 1..NumProcs
Ids == 1..MaxNodes
Times == 0..MaxTime
ReactionKeys == Ids \X Users \X ReactionTypes

\* User.is_moderator: user 2 holds the moderator flag, user 1 does not.
is_moderator(u) == u = 2

VARIABLES
    receipts,      \* table receipts: id -> row
    reactions,     \* table reactions: <<receipt_id, user_id, type>> -> number of rows
    evidence,      \* table evidence_items: set of <<receipt_id, order_index>>
    next_id,       \* the next fresh primary key of receipts
    now,           \* the clock read by utc_now
    fk_enforced,   \* whether the engine enforces FOREIGN KEY (PostgreSQL) or not (SQLite default)
    procs,         \* per request: the method running, its position and its locals
    calls,         \* the number of requests made so far
    rec,           \* the reconciliation script: position and its open transaction
    chain,         \* the last answer of ReceiptService.get_chain
    blocks,        \* table user_blocks: set of <<blocker_id, blocked_id>>
    listing        \* the last answer of a list query (feed, trending, by author)

vars == <<receipts, reactions, evidence, next_id, now, fk_enforced, procs, calls, rec, chain,
          blocks, listing>>

\* The tables as one value, for the operators that compute a statement's effect.
DB == [receipts |-> receipts, reactions |-> reactions, evidence |-> evidence,
       next_id |-> next_id, now |-> now]

SetDB(d) ==
    /\ receipts' = d.receipts
    /\ reactions' = d.reactions
    /\ evidence' = d.evidence
    /\ next_id' = d.next_id
    /\ now' = d.now

\* ------------------------------------------------------------ repositories
Receipt(parent, author, vis, t) ==
    [parent_receipt_id |-> parent, author_id |-> author, visibility |-> vis,
     fork_count |-> 0, reaction_count |-> 0, created_at |-> t]

get_by_id(d, id) == id \in DOMAIN d.receipts

Sum(f, S) ==
    LET RECURSIVE acc(_)
        acc(T) == IF T = {} THEN 0
                  ELSE LET x == CHOOSE y \in T : TRUE IN f[x] + acc(T \ {x})
    IN acc(S)

KeysOf(id) == {k \in ReactionKeys : k[1] = id}

\* SELECT COUNT(*) FROM reactions WHERE receipt_id = :id
CountReactions(d, id) == Sum(d.reactions, KeysOf(id))

\* SELECT COUNT(*) FROM receipts AS f WHERE f.parent_receipt_id = :id
CountForks(d, id) == Cardinality({f \in DOMAIN d.receipts : d.receipts[f].parent_receipt_id = id})

get_user_reaction(d, id, u, type) == d.reactions[<<id, u, type>>] > 0

\* The table without its unique constraint.
UniqueViolation_none(d, key) == FALSE

\* uq_reaction_user_receipt_type: the INSERT is refused when the triple is present.
UniqueViolation(d, key) == d.reactions[key] > 0

\* ForeignKey("receipts.id"): refused only by an engine that enforces it.
ForeignKeyViolation(d, fk, id) == fk /\ id # NULL /\ id \notin DOMAIN d.receipts

\* BaseRepository.create for Receipt: a fresh id, created_at from the clock.
create_receipt_row(d, parent, author, vis, t) ==
    [d EXCEPT !.receipts = [i \in DOMAIN d.receipts \cup {d.next_id} |->
                               IF i = d.next_id THEN Receipt(parent, author, vis, t)
                               ELSE d.receipts[i]],
              !.next_id = d.next_id + 1,
              !.now = t]

\* BaseRepository.create for Reaction.
create_reaction_row(d, key) == [d EXCEPT !.reactions[key] = @ + 1]

\* BaseRepository.create for EvidenceItem, once per element of data.evidence.
create_evidence_rows(d, id, n) ==
    [d EXCEPT !.evidence = @ \cup {<<id, idx>> : idx \in 0..(n - 1)}]

\* BaseRepository.delete for Reaction: DELETE by primary key, no row is no error.
delete_reaction_row(d, key) ==
    [d EXCEPT !.reactions[key] = IF @ > 0 THEN @ - 1 ELSE 0]

Forks(d, id) == {f \in DOMAIN d.receipts : d.receipts[f].parent_receipt_id = id}

\* The reactions relationship without its delete cascade: the reaction rows of
\* the receipt stay behind.
delete_receipt_row_reactions_kept(d, id) ==
    IF id \notin DOMAIN d.receipts THEN d
    ELSE [d EXCEPT
            !.receipts = [i \in DOMAIN d.receipts \ {id} |->
                            IF d.receipts[i].parent_receipt_id = id
                            THEN [d.receipts[i] EXCEPT !.parent_receipt_id = NULL]
                            ELSE d.receipts[i]],
            !.evidence = {e \in d.evidence : e[1] # id}]

\* The forks backref with passive_deletes: the unit of work leaves the children
\* to the database, which has no ON DELETE rule, so they keep the deleted id.
delete_receipt_row_children_kept(d, id) ==
    IF id \notin DOMAIN d.receipts THEN d
    ELSE [d EXCEPT
            !.receipts = [i \in DOMAIN d.receipts \ {id} |-> d.receipts[i]],
            !.reactions = [k \in ReactionKeys |-> IF k[1] = id THEN 0 ELSE d.reactions[k]],
            !.evidence = {e \in d.evidence : e[1] # id}]

\* The delete followed by a decrement of the parent's fork_count.
delete_receipt_row_parent_decremented(d, id) ==
    IF id \notin DOMAIN d.receipts THEN d
    ELSE LET parent == d.receipts[id].parent_receipt_id
         IN [d EXCEPT
               !.receipts = [i \in DOMAIN d.receipts \ {id} |->
                               IF d.receipts[i].parent_receipt_id = id
                               THEN [d.receipts[i] EXCEPT !.parent_receipt_id = NULL]
                               ELSE IF i = parent /\ d.receipts[i].fork_count > 0
                               THEN [d.receipts[i] EXCEPT !.fork_count = @ - 1]
                               ELSE d.receipts[i]],
               !.reactions = [k \in ReactionKeys |-> IF k[1] = id THEN 0 ELSE d.reactions[k]],
               !.evidence = {e \in d.evidence : e[1] # id}]

\* BaseRepository.delete for Receipt.  The unit of work deletes the rows of the
\* delete-orphan collections (reactions, evidence_items) and, for the "forks"
\* backref, which carries no delete cascade, sets the children's
\* parent_receipt_id to NULL before the DELETE of the row itself.
delete_receipt_row(d, id) ==
    IF id \notin DOMAIN d.receipts THEN d
    ELSE [d EXCEPT
            !.receipts = [i \in DOMAIN d.receipts \ {id} |->
                            IF d.receipts[i].parent_receipt_id = id
                            THEN [d.receipts[i] EXCEPT !.parent_receipt_id = NULL]
                            ELSE d.receipts[i]],
            !.reactions = [k \in ReactionKeys |-> IF k[1] = id THEN 0 ELSE d.reactions[k]],
            !.evidence = {e \in d.evidence : e[1] # id}]

\* ------------------------------------------------------------------ locals
\* A request's locals.  pc names the statement the method executes next; forks
\* is receipt.forks, the collection the unit of work loads when it deletes
\* receipt; stored is receipt.reaction_count as update_reaction_count loads it,
\* before it assigns the count.
Idle ==
    [op |-> "none", pc |-> "done", receipt_id |-> NULL, user |-> 0, type |-> "none",
     vis |-> "none", n_evidence |-> 0, tick |-> 0, count |-> 0, new_id |-> NULL,
     found |-> FALSE, existing |-> FALSE, result |-> "none", forks |-> {}, stored |-> 0]

Call(op, pc, id, u, type, vis, nev, tick) ==
    [Idle EXCEPT !.op = op, !.pc = pc, !.receipt_id = id, !.user = u, !.type = type,
                 !.vis = vis, !.n_evidence = nev, !.tick = tick]

\* The method returns (result "ok") or raises (result is the exception's name).
Return(lv, result) == [lv EXCEPT !.pc = "done", !.result = result, !.count = 0]

Stamp(d, lv) == IF d.now + lv.tick > MaxTime THEN MaxTime ELSE d.now + lv.tick

Out(d, lv) == [db |-> d, lv |-> lv]

\* --------------------------------------------------- ReceiptService steps
\* create_receipt: repo.create, then the evidence loop, then the reload.
create_receipt_create(d, lv, fk) ==
    Out(create_receipt_row(d, NULL, lv.user, lv.vis, Stamp(d, lv)),
        [lv EXCEPT !.pc = "create_evidence", !.new_id = d.next_id])

\* The evidence loop of create_receipt and fork_receipt, and the reload that
\* follows it in create_receipt.  A receipt deleted in between is a foreign-key
\* error where enforced, orphan evidence rows where not.
evidence_loop(d, lv, fk, next_pc) ==
    IF ForeignKeyViolation(d, fk, lv.new_id)
    THEN Out(d, Return(lv, "IntegrityError"))
    ELSE Out(create_evidence_rows(d, lv.new_id, lv.n_evidence), [lv EXCEPT !.pc = next_pc])

\* get_by_id_with_relations(receipt.id) at the end of create_receipt / fork_receipt.
reload(d, lv) ==
    IF get_by_id(d, lv.new_id) THEN Return(lv, "ok") ELSE Return(lv, "ObjectDeletedError")

create_receipt_evidence(d, lv, fk) ==
    LET r == evidence_loop(d, lv, fk, "reload")
    IN IF r.lv.pc = "reload" THEN Out(r.db, reload(r.db, r.lv)) ELSE r

\* The parent lookup left out: the method goes straight on to the insert.
fork_receipt_check_skipped(d, lv, fk) == Out(d, [lv EXCEPT !.pc = "fork_create"])

\* The counter raised ahead of the insert, which is then never made.
fork_receipt_check_counts_first(d, lv, fk) ==
    IF ~get_by_id(d, lv.receipt_id)
    THEN Out(d, Return(lv, "ReceiptNotFoundError"))
    ELSE Out(d, [lv EXCEPT !.pc = "fork_incr_read", !.found = TRUE])

\* fork_receipt: the parent lookup.
fork_receipt_check(d, lv, fk) ==
    IF ~get_by_id(d, lv.receipt_id)
    THEN Out(d, Return(lv, "ReceiptNotFoundError"))
    ELSE Out(d, [lv EXCEPT !.pc = "fork_create", !.found = TRUE])

\* repo.create(parent_receipt_id=<the new receipt's own id>).
fork_receipt_create_self_parent(d, lv, fk) ==
    IF ForeignKeyViolation(d, fk, lv.receipt_id)
    THEN Out(d, Return(lv, "IntegrityError"))
    ELSE Out(create_receipt_row(d, d.next_id, lv.user, "public", Stamp(d, lv)),
             [lv EXCEPT !.pc = "fork_evidence", !.new_id = d.next_id])

\* fork_receipt: repo.create(parent_receipt_id=parent_id); visibility takes the
\* column default.
fork_receipt_create(d, lv, fk) ==
    IF ForeignKeyViolation(d, fk, lv.receipt_id)
    THEN Out(d, Return(lv, "IntegrityError"))
    ELSE Out(create_receipt_row(d, lv.receipt_id, lv.user, "public", Stamp(d, lv)),
             [lv EXCEPT !.pc = "fork_evidence", !.new_id = d.next_id])

fork_receipt_evidence(d, lv, fk) == evidence_loop(d, lv, fk, "fork_incr_read")

\* increment_fork_count: receipt = self.get_by_id(receipt_id)
increment_fork_count_read(d, lv, fk) ==
    IF ~get_by_id(d, lv.receipt_id)
    THEN Out(d, reload(d, lv))
    ELSE Out(d, [lv EXCEPT !.pc = "fork_incr_write",
                           !.count = d.receipts[lv.receipt_id].fork_count])

\* The increment left out: the commit writes the value that was read.
increment_fork_count_write_lost(d, lv, fk) ==
    IF ~get_by_id(d, lv.receipt_id)
    THEN Out(d, Return(lv, "StaleDataError"))
    ELSE LET d2 == [d EXCEPT !.receipts[lv.receipt_id].fork_count = lv.count]
         IN Out(d2, reload(d2, lv))

\* UPDATE receipts SET fork_count = fork_count + 1: the increment made by the
\* database on the row as it is at the write.
increment_fork_count_write_atomic(d, lv, fk) ==
    IF ~get_by_id(d, lv.receipt_id)
    THEN Out(d, Return(lv, "StaleDataError"))
    ELSE LET d2 == [d EXCEPT !.receipts[lv.receipt_id].fork_count = @ + 1]
         IN Out(d2, reload(d2, lv))

\* increment_fork_count: receipt.fork_count += 1; self.db.commit(), then the
\* reload of fork_receipt.  The UPDATE carries the value computed from the read.
increment_fork_count_write(d, lv, fk) ==
    IF ~get_by_id(d, lv.receipt_id)
    THEN Out(d, Return(lv, "StaleDataError"))
    ELSE LET d2 == [d EXCEPT !.receipts[lv.receipt_id].fork_count = lv.count + 1]
         IN Out(d2, reload(d2, lv))

\* delete_receipt: the lookup and the author / moderator check.
delete_receipt_check(d, lv, fk) ==
    IF ~get_by_id(d, lv.receipt_id)
    THEN Out(d, Return(lv, "ReceiptNotFoundError"))
    ELSE IF d.receipts[lv.receipt_id].author_id # lv.user /\ ~is_moderator(lv.user)
    THEN Out(d, Return(lv, "NotAuthorizedError"))
    ELSE Out(d, [lv EXCEPT !.pc = "delete_delete", !.found = TRUE])

\* delete_receipt: self.repo.delete(receipt)
delete_receipt_delete(d, lv, fk) ==
    Out(delete_receipt_row(d, lv.receipt_id),
        [Return(lv, "ok") EXCEPT !.forks = Forks(d, lv.receipt_id)])

\* take_action(CONTENT_REMOVAL, RECEIPT): _check_moderator and the lookup; a
\* missing receipt is skipped and the action still recorded.
take_action_check(d, lv, fk) ==
    IF ~is_moderator(lv.user)
    THEN Out(d, Return(lv, "NotAuthorizedError"))
    ELSE IF ~get_by_id(d, lv.receipt_id)
    THEN Out(d, Return(lv, "ok"))
    ELSE Out(d, [lv EXCEPT !.pc = "take_delete", !.found = TRUE])

\* take_action: self.receipt_repo.delete(receipt), then the action row.
take_action_delete(d, lv, fk) ==
    Out(delete_receipt_row(d, lv.receipt_id),
        [Return(lv, "ok") EXCEPT !.forks = Forks(d, lv.receipt_id)])

\* -------------------------------------------------- ReactionService steps
ReactionKey(lv) == <<lv.receipt_id, lv.user, lv.type>>

\* The receipt lookup left out: the method goes straight on to the existing-row
\* query.
add_reaction_check_skipped(d, lv, fk) == Out(d, [lv EXCEPT !.pc = "add_existing"])

\* add_reaction: the receipt lookup.
add_reaction_check(d, lv, fk) ==
    IF ~get_by_id(d, lv.receipt_id)
    THEN Out(d, Return(lv, "ReceiptNotFoundError"))
    ELSE Out(d, [lv EXCEPT !.pc = "add_existing", !.found = TRUE])

\* The early return left out: the method always goes on to insert.
add_reaction_existing_ignored(d, lv, fk) == Out(d, [lv EXCEPT !.pc = "add_create"])

\* add_reaction: existing = get_user_reaction(...); if existing: return existing
add_reaction_existing(d, lv, fk) ==
    IF get_user_reaction(d, lv.receipt_id, lv.user, lv.type)
    THEN Out(d, Return([lv EXCEPT !.existing = TRUE], "ok"))
    ELSE Out(d, [lv EXCEPT !.pc = "add_create"])

\* add_reaction: self.repo.create(...).  The exception is not caught.
add_reaction_create(d, lv, fk) ==
    IF UniqueViolation(d, ReactionKey(lv)) \/ ForeignKeyViolation(d, fk, lv.receipt_id)
    THEN Out(d, Return(lv, "IntegrityError"))
    ELSE Out(create_reaction_row(d, ReactionKey(lv)), [lv EXCEPT !.pc = "urc_count"])

\* remove_reaction: reaction = get_user_reaction(...); if reaction: ...
remove_reaction_existing(d, lv, fk) ==
    IF get_user_reaction(d, lv.receipt_id, lv.user, lv.type)
    THEN Out(d, [lv EXCEPT !.pc = "remove_delete", !.existing = TRUE])
    ELSE Out(d, Return(lv, "ok"))

\* A delete by (receipt_id, user_id) alone, whatever the type.
remove_reaction_delete_any_type(d, lv, fk) ==
    Out([d EXCEPT !.reactions =
            [k \in ReactionKeys |->
                IF k[1] = lv.receipt_id /\ k[2] = lv.user THEN 0 ELSE d.reactions[k]]],
        [lv EXCEPT !.pc = "urc_count"])

\* remove_reaction: self.repo.delete(reaction)
remove_reaction_delete(d, lv, fk) ==
    Out(delete_reaction_row(d, ReactionKey(lv)), [lv EXCEPT !.pc = "urc_count"])

\* The COUNT narrowed to the rows of the request's reaction type.
update_reaction_count_count_of_type(d, lv, fk) ==
    Out(d, [lv EXCEPT !.pc = "urc_write",
                      !.count = Sum(d.reactions, {k \in KeysOf(lv.receipt_id) : k[3] = lv.type})])

\* update_reaction_count: the SELECT COUNT.
update_reaction_count_count(d, lv, fk) ==
    Out(d, [lv EXCEPT !.pc = "urc_write", !.count = CountReactions(d, lv.receipt_id)])

\* UPDATE receipts SET reaction_count = reaction_count + 1 after an insert,
\* - 1 after a delete: the counter stepped from its stored value, the COUNT
\* not used.
update_reaction_count_write_stepped(d, lv, fk) ==
    IF ~get_by_id(d, lv.receipt_id)
    THEN Out(d, Return(lv, "ok"))
    ELSE Out([d EXCEPT !.receipts[lv.receipt_id].reaction_count =
                           IF lv.op = "add_reaction" THEN @ + 1
                           ELSE IF @ > 0 THEN @ - 1 ELSE 0],
             [Return(lv, "ok") EXCEPT !.stored = d.receipts[lv.receipt_id].reaction_count])

\* UPDATE receipts SET reaction_count = (SELECT COUNT(*) ...): the rows counted
\* by the statement that writes, not before it.
update_reaction_count_write_recounted(d, lv, fk) ==
    IF ~get_by_id(d, lv.receipt_id)
    THEN Out(d, Return(lv, "ok"))
    ELSE Out([d EXCEPT !.receipts[lv.receipt_id].reaction_count =
                           CountReactions(d, lv.receipt_id)],
             [Return(lv, "ok") EXCEPT !.stored = d.receipts[lv.receipt_id].reaction_count])

\* update_reaction_count: receipt = get_by_id; receipt.reaction_count = count; commit
update_reaction_count_write(d, lv, fk) ==
    IF ~get_by_id(d, lv.receipt_id)
    THEN Out(d, Return(lv, "ok"))
    ELSE Out([d EXCEPT !.receipts[lv.receipt_id].reaction_count = lv.count],
             [Return(lv, "ok") EXCEPT !.stored = d.receipts[lv.receipt_id].reaction_count])

\* The statement at lv.pc.
StepOf(d, lv, fk) ==
    CASE lv.pc = "create_create"   -> create_receipt_create(d, lv, fk)
      [] lv.pc = "create_evidence" -> create_receipt_evidence(d, lv, fk)
      [] lv.pc = "fork_check"      -> fork_receipt_check(d, lv, fk)
      [] lv.pc = "fork_create"     -> fork_receipt_create(d, lv, fk)
      [] lv.pc = "fork_evidence"   -> fork_receipt_evidence(d, lv, fk)
      [] lv.pc = "fork_incr_read"  -> increment_fork_count_read(d, lv, fk)
      [] lv.pc = "fork_incr_write" -> increment_fork_count_write(d, lv, fk)
      [] lv.pc = "delete_check"    -> delete_receipt_check(d, lv, fk)
      [] lv.pc = "delete_delete"   -> delete_receipt_delete(d, lv, fk)
      [] lv.pc = "take_check"      -> take_action_check(d, lv, fk)
      [] lv.pc = "take_delete"     -> take_action_delete(d, lv, fk)
      [] lv.pc = "add_check"       -> add_reaction_check(d, lv, fk)
      [] lv.pc = "add_existing"    -> add_reaction_existing(d, lv, fk)
      [] lv.pc = "add_create"      -> add_reaction_create(d, lv, fk)
      [] lv.pc = "remove_existing" -> remove_reaction_existing(d, lv, fk)
      [] lv.pc = "remove_delete"   -> remove_reaction_delete(d, lv, fk)
      [] lv.pc = "urc_count"       -> update_reaction_count_count(d, lv, fk)
      [] lv.pc = "urc_write"       -> update_reaction_count_write(d, lv, fk)

\* The method run to its return, no other request in between.
RECURSIVE Run(_, _, _)
Run(d, lv, fk) ==
    IF lv.pc = "done" THEN Out(d, lv)
    ELSE LET r == StepOf(d, lv, fk) IN Run(r.db, r.lv, fk)

\* ------------------------------------------------------ reconcile_counts
\* reaction_count and fork_count are the values the open transaction has
\* written and not yet committed; reaction_rows and fork_rows the rowcounts it
\* returns.  ran: the last run has committed.  quiet: no request has run a
\* statement since the last run's first statement, and none was in flight
\* then.  again: the run before this one had committed and was quiet still
\* when this one began.
RecIdle ==
    [pc |-> "idle", reaction_count |-> <<>>, fork_count |-> <<>>,
     reaction_rows |-> 0, fork_rows |-> 0, ran |-> FALSE, quiet |-> FALSE, again |-> FALSE]

\* The subquery without its WHERE: every receipt gets the size of the table.
reconcile_reaction_update_all_rows(d, r) ==
    [r EXCEPT !.pc = "fork_update",
              !.reaction_count = [i \in DOMAIN d.receipts |-> Sum(d.reactions, ReactionKeys)],
              !.fork_count = <<>>,
              !.reaction_rows = Cardinality(DOMAIN d.receipts),
              !.fork_rows = 0,
              !.ran = FALSE]

\* UPDATE receipts SET reaction_count = reaction_count + (SELECT COUNT(*) ...):
\* the count added to the column.
reconcile_reaction_update_added(d, r) ==
    [r EXCEPT !.pc = "fork_update",
              !.reaction_count = [i \in DOMAIN d.receipts |->
                                     d.receipts[i].reaction_count + CountReactions(d, i)],
              !.fork_count = <<>>,
              !.reaction_rows = Cardinality(DOMAIN d.receipts),
              !.fork_rows = 0,
              !.ran = FALSE]

\* UPDATE receipts SET reaction_count = (SELECT COUNT(*) FROM reactions ...):
\* every row is matched and locked until the commit; rowcount is the number of
\* rows matched.
reconcile_reaction_update(d, r) ==
    [r EXCEPT !.pc = "fork_update",
              !.reaction_count = [i \in DOMAIN d.receipts |-> CountReactions(d, i)],
              !.fork_count = <<>>,
              !.reaction_rows = Cardinality(DOMAIN d.receipts),
              !.fork_rows = 0,
              !.ran = FALSE]

\* rowcount as the number of rows whose fork_count the statement changes.
reconcile_fork_update_changed_rows(d, r) ==
    [r EXCEPT !.pc = "commit",
              !.fork_count = [i \in DOMAIN d.receipts |-> CountForks(d, i)],
              !.fork_rows = Cardinality({i \in DOMAIN d.receipts :
                                            d.receipts[i].fork_count # CountForks(d, i)})]

\* UPDATE receipts SET fork_count = (SELECT COUNT(*) FROM receipts AS f ...)
reconcile_fork_update(d, r) ==
    [r EXCEPT !.pc = "commit",
              !.fork_count = [i \in DOMAIN d.receipts |-> CountForks(d, i)],
              !.fork_rows = Cardinality(DOMAIN d.receipts)]

\* db.commit(): both updates become visible.
reconcile_commit_db(d, r) ==
    [d EXCEPT !.receipts = [i \in DOMAIN d.receipts |->
        [d.receipts[i] EXCEPT
            !.reaction_count = IF i \in DOMAIN r.reaction_count THEN r.reaction_count[i] ELSE @,
            !.fork_count = IF i \in DOMAIN r.fork_count THEN r.fork_count[i] ELSE @]]]

reconcile_commit(d, r) ==
    [r EXCEPT !.pc = "idle", !.reaction_count = <<>>, !.fork_count = <<>>, !.ran = TRUE]

\* The rows the open reconciliation transaction holds locked.
Locked(r) == DOMAIN r.reaction_count \cup DOMAIN r.fork_count

\* A statement that writes a locked row waits for the commit.
Blocked(d, lv, r) ==
    \/ lv.pc \in {"fork_incr_write", "urc_write"} /\ lv.receipt_id \in Locked(r)
    \/ lv.pc \in {"delete_delete", "take_delete"}
         /\ ({lv.receipt_id} \cup Forks(d, lv.receipt_id)) \cap Locked(r) # {}

\* ------------------------------------------------------------ get_chain
\* .order_by(Receipt.created_at.asc()) alone.
fork_order_by_created_at(d, a, b) ==
    d.receipts[a].created_at < d.receipts[b].created_at

\* .order_by(Receipt.reaction_count.desc(), Receipt.created_at.asc()): row a
\* comes before row b.
fork_order(d, a, b) ==
    \/ d.receipts[a].reaction_count > d.receipts[b].reaction_count
    \/ /\ d.receipts[a].reaction_count = d.receipts[b].reaction_count
       /\ d.receipts[a].created_at < d.receipts[b].created_at

\* Rows the ORDER BY leaves tied come in the order the engine scans them, rank.
Precedes(d, rank, a, b) ==
    fork_order(d, a, b) \/ (~fork_order(d, b, a) /\ rank[a] < rank[b])

RECURSIVE OrderedRows(_, _, _)
OrderedRows(d, rank, S) ==
    IF S = {} THEN <<>>
    ELSE LET m == CHOOSE x \in S : \A y \in S \ {x} : Precedes(d, rank, x, y)
         IN <<m>> \o OrderedRows(d, rank, S \ {m})

\* The recursion with the depth test left out: it stops only where a receipt
\* has no forks.
RECURSIVE _get_forks_recursive_no_depth(_, _, _, _)
_get_forks_recursive_no_depth(d, rank, parent_id, remaining_depth) ==
    LET forks == OrderedRows(d, rank, Forks(d, parent_id))
        RECURSIVE child_forks(_)
        child_forks(i) ==
            IF i > Len(forks) THEN <<>>
            ELSE _get_forks_recursive_no_depth(d, rank, forks[i], remaining_depth)
                     \o child_forks(i + 1)
    IN forks \o child_forks(1)

\* ReceiptRepository._get_forks_recursive: the forks of parent_id in query
\* order, followed by the subtree lists of each of them in turn.
RECURSIVE _get_forks_recursive(_, _, _, _)
_get_forks_recursive(d, rank, parent_id, remaining_depth) ==
    IF remaining_depth <= 0 THEN <<>>
    ELSE LET forks == OrderedRows(d, rank, Forks(d, parent_id))
             RECURSIVE child_forks(_)
             child_forks(i) ==
                 IF i > Len(forks) THEN <<>>
                 ELSE _get_forks_recursive(d, rank, forks[i], remaining_depth - 1)
                          \o child_forks(i + 1)
         IN forks \o child_forks(1)

\* An if in place of the while: one hop up at most.
find_root_one_hop(d, root) ==
    LET parent == d.receipts[root].parent_receipt_id
    IN IF parent = NULL \/ ~get_by_id(d, parent) THEN root ELSE parent

\* ReceiptRepository.get_chain, the walk: while root.parent_receipt_id: ...
RECURSIVE find_root(_, _)
find_root(d, root) ==
    LET parent == d.receipts[root].parent_receipt_id
    IN IF parent = NULL THEN root
       ELSE IF ~get_by_id(d, parent) THEN root
       ELSE find_root(d, parent)

\* ReceiptRepository.get_chain: (root, forks), root NULL when root_id is missing.
repo_get_chain(d, rank, root_id, max_depth) ==
    IF ~get_by_id(d, root_id) THEN [root |-> NULL, forks |-> <<>>]
    ELSE LET root == find_root(d, root_id)
         IN [root |-> root, forks |-> _get_forks_recursive(d, rank, root, max_depth)]

\* ReceiptService._build_fork_tree: the nested nodes under parent_id.
RECURSIVE _build_fork_tree(_, _, _)
_build_fork_tree(d, parent_id, all_forks) ==
    LET direct_forks ==
            SelectSeq(all_forks, LAMBDA f : d.receipts[f].parent_receipt_id = parent_id)
    IN [i \in 1..Len(direct_forks) |->
           [id |-> direct_forks[i],
            forks |-> _build_fork_tree(d, direct_forks[i], all_forks)]]

\* pc: "idle" before the request, "walk" while get_chain is in its while loop
\* with root the receipt loaded last and passes the number of passes made so
\* far modulo 2 (a pass that loads the receipt root already is, is a pass all
\* the same), "done" once it has answered.
NoChain == [called |-> FALSE, pc |-> "idle"]

\* The answer for a missing receipt_id: the None answered as 404.
chain_not_found(receipt_id, max_depth, rank) ==
    [called |-> TRUE, pc |-> "done", receipt_id |-> receipt_id, max_depth |-> max_depth,
     rank |-> rank, found |-> FALSE, root |-> NULL, forks |-> <<>>, total_in_chain |-> 0]

\* The answer once the walk has stopped at root: the fork list of
\* ReceiptRepository.get_chain nested by ReceiptService.get_chain.
chain_of(d, rank, receipt_id, max_depth, root) ==
    LET forks == _get_forks_recursive(d, rank, root, max_depth)
    IN [called |-> TRUE, pc |-> "done", receipt_id |-> receipt_id, max_depth |-> max_depth,
        rank |-> rank, found |-> TRUE, root |-> root,
        forks |-> _build_fork_tree(d, root, forks),
        total_in_chain |-> 1 + Len(forks)]

\* ReceiptService.get_chain; found FALSE is the None answered as 404.
get_chain(d, rank, receipt_id, max_depth) ==
    LET r == repo_get_chain(d, rank, receipt_id, max_depth)
    IN IF r.root = NULL
       THEN chain_not_found(receipt_id, max_depth, rank)
       ELSE chain_of(d, rank, receipt_id, max_depth, r.root)

\* get_chain up to its loop: root = self.get_by_id_with_relations(root_id).
get_chain_load(d, rank, receipt_id, max_depth) ==
    IF ~get_by_id(d, receipt_id) THEN chain_not_found(receipt_id, max_depth, rank)
    ELSE [called |-> FALSE, pc |-> "walk", receipt_id |-> receipt_id,
          max_depth |-> max_depth, root |-> receipt_id, passes |-> 0]

\* The while loop makes another pass from root: root.parent_receipt_id is set
\* and the parent is loaded, so the break is not taken.
loop_goes_on(d, root) ==
    /\ d.receipts[root].parent_receipt_id # NULL
    /\ get_by_id(d, d.receipts[root].parent_receipt_id)

\* A missing parent answered as a missing receipt.
get_chain_hop_not_found(d, rank, c) ==
    LET parent == d.receipts[c.root].parent_receipt_id
    IN IF loop_goes_on(d, c.root) THEN [c EXCEPT !.root = parent, !.passes = 1 - @]
       ELSE IF parent # NULL THEN chain_not_found(c.receipt_id, c.max_depth, rank)
       ELSE chain_of(d, rank, c.receipt_id, c.max_depth, c.root)

\* One test of the while condition and what follows it: the loop body
\* (root = parent) when root has a parent_receipt_id and the parent is there,
\* the rest of the method when it has none or after the break.
get_chain_hop(d, rank, c) ==
    IF loop_goes_on(d, c.root)
    THEN [c EXCEPT !.root = d.receipts[c.root].parent_receipt_id, !.passes = 1 - @]
    ELSE chain_of(d, rank, c.receipt_id, c.max_depth, c.root)

\* ---------------------------------------------------------- list queries
\* The rows of S in the order before (the set of pairs <<a, b>> the ORDER BY
\* puts a ahead of b), rows it leaves tied in scan order rank.
RECURSIVE OrderedBy(_, _, _)
OrderedBy(before, rank, S) ==
    IF S = {} THEN <<>>
    ELSE LET m == CHOOSE x \in S :
                     \A y \in S \ {x} :
                         \/ <<x, y>> \in before
                         \/ <<y, x>> \notin before /\ rank[x] < rank[y]
         IN <<m>> \o OrderedBy(before, rank, S \ {m})

\* .offset(skip).limit(limit)
OffsetLimit(rows, skip, limit) ==
    [i \in 1..(IF Len(rows) <= skip THEN 0
               ELSE IF Len(rows) - skip < limit THEN Len(rows) - skip ELSE limit) |->
        rows[skip + i]]

\* .order_by(Receipt.created_at.desc())
feed_order(d, a, b) == d.receipts[a].created_at > d.receipts[b].created_at

\* ReceiptRepository.get_feed; exclude_user_ids {} is the None and the empty list.
repo_get_feed(d, rank, skip, limit, exclude_user_ids) ==
    LET rows == {i \in DOMAIN d.receipts :
                    /\ d.receipts[i].visibility = "public"
                    /\ exclude_user_ids # {} => d.receipts[i].author_id \notin exclude_user_ids}
    IN OffsetLimit(OrderedBy({p \in rows \X rows : feed_order(d, p[1], p[2])}, rank, rows), skip, limit)

\* The columns swapped: the users who block user_id.
get_blocked_ids_swapped(b, user_id) == {p[1] : p \in {q \in b : q[2] = user_id}}

\* UserBlockRepository.get_blocked_ids
get_blocked_ids(b, user_id) == {p[2] : p \in {q \in b : q[1] = user_id}}

\* FeedService.get_home_feed; user NULL is the request without a viewer.
get_home_feed(d, b, rank, user, skip, limit) ==
    LET exclude_user_ids == IF user # NULL THEN get_blocked_ids(b, user) ELSE {}
    IN repo_get_feed(d, rank, skip, limit, exclude_user_ids)

\* The page built by GET /feed and GET /users/{handle}/receipts from limit + 1
\* rows; next_cursor NULL is the None.
Page(op, who, skip, limit, rows) ==
    LET has_more == Len(rows) > limit
    IN [op |-> op, user |-> who, skip |-> skip, limit |-> limit, hours |-> 0,
        receipts |-> IF has_more THEN SubSeq(rows, 1, limit) ELSE rows,
        has_more |-> has_more,
        next_cursor |-> IF has_more THEN skip + limit ELSE NULL]

NoListing == Page("none", NULL, 0, 0, <<>>)

\* limit rows fetched, not limit + 1.
get_feed_no_lookahead(d, b, rank, user, skip, limit) ==
    Page("get_feed", user, skip, limit, get_home_feed(d, b, rank, user, skip, limit))

\* GET /feed
get_feed(d, b, rank, user, skip, limit) ==
    Page("get_feed", user, skip, limit, get_home_feed(d, b, rank, user, skip, limit + 1))

\* ReceiptRepository.get_by_author
get_by_author(d, rank, author_id, skip, limit) ==
    LET rows == {i \in DOMAIN d.receipts :
                    /\ d.receipts[i].author_id = author_id
                    /\ d.receipts[i].visibility = "public"}
    IN OffsetLimit(OrderedBy({p \in rows \X rows : feed_order(d, p[1], p[2])}, rank, rows), skip, limit)

\* GET /users/{handle}/receipts
get_user_receipts(d, rank, author_id, skip, limit) ==
    Page("get_by_author", author_id, skip, limit,
         get_by_author(d, rank, author_id, skip, limit + 1))

\* receipt.reaction_count + receipt.fork_count * 2
engagement_score(d, a) == d.receipts[a].reaction_count + d.receipts[a].fork_count * 2

\* .order_by(created_at.desc()) alone, the score left out.
trending_order_created_only(d, a, b) == d.receipts[a].created_at > d.receipts[b].created_at

\* .order_by((reaction_count + fork_count * 2).desc(), created_at.desc())
trending_order(d, a, b) ==
    \/ engagement_score(d, a) > engagement_score(d, b)
    \/ /\ engagement_score(d, a) = engagement_score(d, b)
       /\ d.receipts[a].created_at > d.receipts[b].created_at

\* ReceiptRepository.get_trending; hours in units of the model's clock.
repo_get_trending(d, rank, limit, hours) ==
    LET cutoff == d.now - hours
        rows == {i \in DOMAIN d.receipts :
                    /\ d.receipts[i].visibility = "public"
                    /\ d.receipts[i].created_at >= cutoff}
    IN OffsetLimit(OrderedBy({p \in rows \X rows : trending_order(d, p[1], p[2])}, rank, rows), 0, limit)

\* GET /feed/trending
get_trending(d, rank, limit, hours) ==
    [Page("get_trending", NULL, 0, limit, repo_get_trending(d, rank, limit, hours))
        EXCEPT !.hours = hours]

\* UserService.block_user, from the rows of user_blocks to its rows after.
block_user(b, blocker, blocked_id) ==
    IF blocker = blocked_id THEN b
    ELSE IF <<blocker, blocked_id>> \in b THEN b
    ELSE b \cup {<<blocker, blocked_id>>}

\* UserService.unblock_user
unblock_user(b, blocker, blocked_id) == b \ {<<blocker, blocked_id>>}

\* ------------------------------------------------------------- requests
TypeOK ==
    /\ DOMAIN receipts \subseteq Ids
    /\ next_id \in 1..(MaxNodes + 1)
    /\ now \in 0..(MaxTime + 1)
    /\ fk_enforced \in BOOLEAN
    /\ DOMAIN procs = Procs
    /\ rec.pc \in {"idle", "fork_update", "commit"}
    /\ calls \in Nat

Init ==
    /\ receipts = <<>>
    /\ reactions = [k \in ReactionKeys |-> 0]
    /\ evidence = {}
    /\ next_id = 1
    /\ now = 0
    /\ fk_enforced \in BOOLEAN
    /\ procs = [p \in Procs |-> Idle]
    /\ calls = 0
    /\ rec = RecIdle
    /\ chain = NoChain
    /\ blocks = {}
    /\ listing = NoListing

\* Receipt inserts that requests in flight are still to make.
PendingCreates == Cardinality({p \in Procs : procs[p].pc = "fork_create"})

CanCreate == next_id + PendingCreates <= MaxNodes

\* A new request takes the first free connection, and at most MaxCalls are made.
CanCall(p) ==
    /\ procs[p].pc = "done"
    /\ \A q \in Procs : q < p => procs[q].pc # "done"
    /\ calls < MaxCalls

\* The ids requests name: those handed out so far and the next one.
KnownIds == {i \in Ids : i <= next_id}

\* One statement of request p, whose locals before it are lv.
Exec(p, lv) ==
    /\ ~Blocked(DB, lv, rec)
    /\ LET r == StepOf(DB, lv, fk_enforced)
       IN /\ SetDB(r.db)
          /\ procs' = [procs EXCEPT ![p] = r.lv]
    /\ rec' = [rec EXCEPT !.quiet = FALSE]
    /\ calls' = IF procs[p].pc = "done" THEN calls + 1 ELSE calls
    /\ UNCHANGED <<fk_enforced, chain, blocks, listing>>

create_receipt(p, u, vis, nev, tick) ==
    /\ CanCall(p)
    /\ CanCreate
    /\ Exec(p, Call("create_receipt", "create_create", NULL, u, "none", vis, nev, tick))

fork_receipt(p, u, id, nev, tick) ==
    /\ CanCall(p)
    /\ get_by_id(DB, id) => CanCreate
    /\ Exec(p, Call("fork_receipt", "fork_check", id, u, "none", "none", nev, tick))

delete_receipt(p, u, id) ==
    /\ CanCall(p)
    /\ Exec(p, Call("delete_receipt", "delete_check", id, u, "none", "none", 0, 0))

add_reaction(p, u, id, type) ==
    /\ CanCall(p)
    /\ Exec(p, Call("add_reaction", "add_check", id, u, type, "none", 0, 0))

remove_reaction(p, u, id, type) ==
    /\ CanCall(p)
    /\ Exec(p, Call("remove_reaction", "remove_existing", id, u, type, "none", 0, 0))

\* The next statement of a request in flight.
Step(p) ==
    /\ procs[p].pc # "done"
    /\ Exec(p, procs[p])

reconcile_counts ==
    /\ rec.pc = "idle"
    /\ rec' = [reconcile_reaction_update(DB, rec) EXCEPT
                  !.quiet = \A p \in Procs : procs[p].pc = "done",
                  !.again = rec.ran /\ rec.quiet]
    /\ UNCHANGED <<receipts, reactions, evidence, next_id, now, fk_enforced, procs, calls, chain,
                   blocks, listing>>

reconcile_counts_fork ==
    /\ rec.pc = "fork_update"
    /\ rec' = reconcile_fork_update(DB, rec)
    /\ UNCHANGED <<receipts, reactions, evidence, next_id, now, fk_enforced, procs, calls, chain,
                   blocks, listing>>

reconcile_counts_commit ==
    /\ rec.pc = "commit"
    /\ SetDB(reconcile_commit_db(DB, rec))
    /\ rec' = reconcile_commit(DB, rec)
    /\ UNCHANGED <<fk_enforced, procs, calls, chain, blocks, listing>>

Next ==
    \/ \E p \in Procs, u \in Users, nev \in 1..MaxEvidence :
          create_receipt(p, u, "public", nev, 0)
    \/ \E p \in Procs, u \in Users, id \in KnownIds, nev \in 1..MaxEvidence :
          fork_receipt(p, u, id, nev, 0)
    \/ \E p \in Procs, u \in Users, id \in KnownIds : delete_receipt(p, u, id)
    \/ \E p \in Procs, u \in Users, id \in KnownIds, type \in ReactionTypes :
          add_reaction(p, u, id, type)
    \/ \E p \in Procs, u \in Users, id \in KnownIds, type \in ReactionTypes :
          remove_reaction(p, u, id, type)
    \/ \E p \in Procs : Step(p)
    \/ reconcile_counts
    \/ reconcile_counts_fork
    \/ reconcile_counts_commit

Spec == Init /\ [][Next]_vars

\* ------------------------------------------------- one request at a time
\* reconcile_counts from its first statement to its commit.
ReconcileRun(d, r) ==
    LET r1 == [reconcile_reaction_update(d, r) EXCEPT !.quiet = TRUE,
                                                      !.again = r.ran /\ r.quiet]
        r2 == reconcile_fork_update(d, r1)
    IN [db |-> reconcile_commit_db(d, r2), rec |-> reconcile_commit(d, r2)]

InitSeq == Init /\ ~fk_enforced

\* A service method from call to return; its locals at the return are kept in
\* procs[1].
SeqCall(lv) ==
    /\ calls < MaxSeqCalls
    /\ LET r == Run(DB, lv, fk_enforced)
       IN /\ SetDB(r.db)
          /\ procs' = [procs EXCEPT ![1] = r.lv]
    /\ calls' = calls + 1
    /\ rec' = [rec EXCEPT !.quiet = FALSE]
    /\ UNCHANGED <<fk_enforced, chain, blocks, listing>>

CreateReceipt(u, nev) ==
    /\ next_id <= MaxNodes
    /\ SeqCall(Call("create_receipt", "create_create", NULL, u, "none", "public", nev, 0))

ForkReceipt(u, id, nev) ==
    /\ get_by_id(DB, id) => next_id <= MaxNodes
    /\ SeqCall(Call("fork_receipt", "fork_check", id, u, "none", "none", nev, 0))

DeleteReceipt(u, id) ==
    SeqCall(Call("delete_receipt", "delete_check", id, u, "none", "none", 0, 0))

AddReaction(u, id, type) ==
    SeqCall(Call("add_reaction", "add_check", id, u, type, "none", 0, 0))

RemoveReaction(u, id, type) ==
    SeqCall(Call("remove_reaction", "remove_existing", id, u, type, "none", 0, 0))

\* POST /admin/actions with action_type content_removal, target_type receipt.
TakeAction(u, id) ==
    SeqCall(Call("take_action", "take_check", id, u, "none", "none", 0, 0))

ReconcileAll ==
    /\ LET r == ReconcileRun(DB, rec)
       IN SetDB(r.db) /\ rec' = r.rec
    /\ UNCHANGED <<fk_enforced, procs, calls, chain, blocks, listing>>

NextSeq ==
    \/ \E u \in Users, nev \in 1..MaxEvidence : CreateReceipt(u, nev)
    \/ \E u \in Users, id \in KnownIds, nev \in 1..MaxEvidence : ForkReceipt(u, id, nev)
    \/ \E u \in Users, id \in KnownIds : DeleteReceipt(u, id)
    \/ \E u \in Users, id \in KnownIds : TakeAction(u, id)
    \/ \E u \in Users, id \in KnownIds, type \in ReactionTypes : AddReaction(u, id, type)
    \/ \E u \in Users, id \in KnownIds, type \in ReactionTypes : RemoveReaction(u, id, type)
    \/ ReconcileAll

SpecSeq == InitSeq /\ [][NextSeq]_vars

\* ------------------------------------------------------ chains of a store
\* The (user, type) pairs in a fixed order, to fill a receipt's reactions.
PairSeq == [i \in 1..(NumUsers * NumTypes) |->
               <<((i - 1) \div NumTypes) + 1, ReactionType[((i - 1) % NumTypes) + 1]>>]

PairIndex(u, type) == CHOOSE i \in 1..(NumUsers * NumTypes) : PairSeq[i] = <<u, type>>

\* The scan orders an engine may use for rows the ORDER BY leaves tied.
Ranks == {f \in [Ids -> Ids] : \A a, b \in Ids : a # b => f[a] # f[b]}

\* The stores that n creates and forks, the deletion of the receipts outside
\* alive, and rc[i] reactions on receipt i leave behind: a fork names an earlier
\* receipt, the clock does not run backwards, and the counters are exact.
InitChain ==
    \E n \in 1..MaxNodes :
    \E alive \in SUBSET (1..n) :
    \E parent \in [1..n -> 0..n] :
    \E rc \in [1..n -> 0..(NumUsers * NumTypes)] :
    \E at \in [1..n -> Times] :
        /\ \A i \in 1..n : parent[i] < i
        /\ \A i \in alive : parent[i] # NULL => parent[i] \in alive
        /\ \A i \in (1..n) \ alive : parent[i] = NULL /\ rc[i] = 0 /\ at[i] = 0
        /\ \A i, j \in alive : i < j => at[i] <= at[j]
        /\ receipts = [i \in alive |->
              [Receipt(parent[i], 1, "public", at[i]) EXCEPT
                  !.reaction_count = rc[i],
                  !.fork_count = Cardinality({j \in alive : parent[j] = i})]]
        /\ reactions = [k \in ReactionKeys |->
              IF k[1] \in alive /\ PairIndex(k[2], k[3]) <= rc[k[1]] THEN 1 ELSE 0]
        /\ evidence = {<<i, 0>> : i \in alive}
        /\ next_id = n + 1
        /\ now = MaxTime
        /\ fk_enforced = FALSE
        /\ procs = [p \in Procs |-> Idle]
        /\ calls = 0
        /\ rec = RecIdle
        /\ chain = NoChain
        /\ blocks = {}
        /\ listing = NoListing

\* GET /receipts/{receipt_id}/chain?depth=max_depth
GetChain(id, max_depth, rank) ==
    /\ ~chain.called
    /\ chain' = get_chain(DB, rank, id, max_depth)
    /\ UNCHANGED <<receipts, reactions, evidence, next_id, now, fk_enforced, procs, calls, rec,
                   blocks, listing>>

NextChain == \E id \in KnownIds, max_depth \in 1..MaxDepth, rank \in Ranks : GetChain(id, max_depth, rank)

SpecChain == InitChain /\ [][NextChain]_vars

\* ------------------------------------------------------- lists of a store
\* The stores that n creates and forks by any authors leave behind, with rc[i]
\* reactions on receipt i: a fork names an earlier receipt and is public (the
\* column default), the clock does not run backwards and has moved on since
\* the last write, and the counters are exact.
ListStore(n, parent, author, vis, rc, at) ==
    /\ \A i \in 1..n : parent[i] < i
    /\ \A i \in 1..n : parent[i] # NULL => vis[i] = "public"
    /\ \A i, j \in 1..n : i < j => at[i] <= at[j]
    /\ receipts = [i \in 1..n |->
          [Receipt(parent[i], author[i], vis[i], at[i]) EXCEPT
              !.reaction_count = rc[i],
              !.fork_count = Cardinality({j \in 1..n : parent[j] = i})]]
    /\ reactions = [k \in ReactionKeys |->
          IF k[1] \in 1..n /\ PairIndex(k[2], k[3]) <= rc[k[1]] THEN 1 ELSE 0]
    /\ evidence = {<<i, 0>> : i \in 1..n}
    /\ next_id = n + 1
    /\ now = MaxTime + 1
    /\ fk_enforced = FALSE
    /\ procs = [p \in Procs |-> Idle]
    /\ calls = 0
    /\ rec = RecIdle
    /\ chain = NoChain
    /\ blocks = {}
    /\ listing = NoListing

InitFeed ==
    \E n \in 1..MaxNodes :
    \E parent \in [1..n -> 0..n] :
    \E author \in [1..n -> Users] :
    \E vis \in [1..n -> Visibilities] :
    \E at \in [1..n -> Times] :
        ListStore(n, parent, author, vis, [i \in 1..n |-> 0], at)

\* GET /feed?limit=..&cursor=skip, user NULL without a viewer: the first
\* request of a client.
GetFeed(user, skip, limit, rank) ==
    /\ listing.op = "none"
    /\ listing' = get_feed(DB, blocks, rank, user, skip, limit)
    /\ UNCHANGED <<receipts, reactions, evidence, next_id, now, fk_enforced, procs, calls, rec,
                   chain, blocks>>

\* GET /feed?limit=..&cursor=next_cursor: the client asks for the page after
\* the one it holds.
GetFeedNext(rank) ==
    /\ listing.op = "get_feed"
    /\ listing.has_more
    /\ listing' = get_feed(DB, blocks, rank, listing.user, listing.next_cursor, listing.limit)
    /\ UNCHANGED <<receipts, reactions, evidence, next_id, now, fk_enforced, procs, calls, rec,
                   chain, blocks>>

\* GET /users/{handle}/receipts?limit=..&cursor=skip
GetUserReceipts(author_id, skip, limit, rank) ==
    /\ listing.op = "none"
    /\ listing' = get_user_receipts(DB, rank, author_id, skip, limit)
    /\ UNCHANGED <<receipts, reactions, evidence, next_id, now, fk_enforced, procs, calls, rec,
                   chain, blocks>>

\* POST /users/{user_id}/block
BlockUser(blocker, blocked_id) ==
    /\ blocks' = block_user(blocks, blocker, blocked_id)
    /\ UNCHANGED <<receipts, reactions, evidence, next_id, now, fk_enforced, procs, calls, rec,
                   chain, listing>>

\* DELETE /users/{user_id}/block
UnblockUser(blocker, blocked_id) ==
    /\ blocks' = unblock_user(blocks, blocker, blocked_id)
    /\ UNCHANGED <<receipts, reactions, evidence, next_id, now, fk_enforced, procs, calls, rec,
                   chain, listing>>

NextFeed ==
    \/ \E user \in Users \cup {NULL}, skip \in 0..MaxSkip, limit \in 1..MaxLimit, rank \in Ranks :
          GetFeed(user, skip, limit, rank)
    \/ \E rank \in Ranks : GetFeedNext(rank)
    \/ \E author_id \in Users, skip \in 0..MaxSkip, limit \in 1..MaxLimit, rank \in Ranks :
          GetUserReceipts(author_id, skip, limit, rank)
    \/ \E blocker \in Users, blocked_id \in Users : BlockUser(blocker, blocked_id)
    \/ \E blocker \in Users, blocked_id \in Users : UnblockUser(blocker, blocked_id)

SpecFeed == InitFeed /\ [][NextFeed]_vars

InitTrending ==
    \E n \in 1..MaxNodes :
    \E parent \in [1..n -> 0..n] :
    \E vis \in [1..n -> Visibilities] :
    \E rc \in [1..n -> 0..MaxListReactions] :
    \E at \in [1..n -> Times] :
        ListStore(n, parent, [i \in 1..n |-> 1], vis, rc, at)

\* GET /feed/trending?limit=..&period=..
GetTrending(limit, hours, rank) ==
    /\ listing' = get_trending(DB, rank, limit, hours)
    /\ UNCHANGED <<receipts, reactions, evidence, next_id, now, fk_enforced, procs, calls, rec,
                   chain, blocks>>

NextTrending ==
    \E limit \in 1..MaxLimit, hours \in 1..MaxHours, rank \in Ranks : GetTrending(limit, hours, rank)

SpecTrending == InitTrending /\ [][NextTrending]_vars

\* ---------------------------------------------------- chains of any store
\* The receipts table as it may be handed to get_chain, whoever wrote its
\* rows: parent_receipt_id is NULL or any id, of a row of the table (itself and
\* rows that name it back included) or of none.
InitWalk ==
    \E n \in 1..MaxNodes :
    \E parent \in [1..n -> {NULL} \cup Ids] :
        /\ receipts = [i \in 1..n |->
              [Receipt(parent[i], 1, "public", 0) EXCEPT
                  !.fork_count = Cardinality({j \in 1..n : parent[j] = i})]]
        /\ reactions = [k \in ReactionKeys |-> 0]
        /\ evidence = {<<i, 0>> : i \in 1..n}
        /\ next_id = MaxNodes + 1
        /\ now = MaxTime
        /\ fk_enforced = FALSE
        /\ procs = [p \in Procs |-> Idle]
        /\ calls = 0
        /\ rec = RecIdle
        /\ chain = NoChain
        /\ blocks = {}
        /\ listing = NoListing

\* GET /receipts/{receipt_id}/chain?depth=max_depth, up to the while loop.
GetChainLoad(id, max_depth, rank) ==
    /\ chain.pc = "idle"
    /\ chain' = get_chain_load(DB, rank, id, max_depth)
    /\ UNCHANGED <<receipts, reactions, evidence, next_id, now, fk_enforced, procs, calls, rec,
                   blocks, listing>>

\* The request goes once more to the head of the while loop.
GetChainHop(rank) ==
    /\ chain.pc = "walk"
    /\ chain' = get_chain_hop(DB, rank, chain)
    /\ UNCHANGED <<receipts, reactions, evidence, next_id, now, fk_enforced, procs, calls, rec,
                   blocks, listing>>

NextWalk ==
    \/ \E id \in Ids, max_depth \in 1..MaxDepth, rank \in Ranks : GetChainLoad(id, max_depth, rank)
    \/ \E rank \in Ranks : GetChainHop(rank)

\* The request is served to its end: a worker does not stop in the loop.
SpecWalk == InitWalk /\ [][NextWalk]_vars /\ WF_vars(NextWalk)

\* ------------------------------------------------- reactions on any store
\* The stores that requests racing on a receipt's reactions leave behind: at
\* most one row per triple, and in reaction_count the COUNT of whichever
\* request wrote last, which is any number of rows the receipt has held.
InitDrift ==
    \E n \in 1..MaxDriftNodes :
    \E rows \in [(1..n) \X Users \X ReactionTypes -> 0..1] :
    \E rc \in [1..n -> 0..(NumUsers * NumTypes)] :
        /\ receipts = [i \in 1..n |->
              [Receipt(NULL, 1, "public", 0) EXCEPT !.reaction_count = rc[i]]]
        /\ reactions = [k \in ReactionKeys |-> IF k[1] \in 1..n THEN rows[k] ELSE 0]
        /\ evidence = {<<i, 0>> : i \in 1..n}
        /\ next_id = n + 1
        /\ now = MaxTime
        /\ fk_enforced = FALSE
        /\ procs = [p \in Procs |-> Idle]
        /\ calls = 0
        /\ rec = RecIdle
        /\ chain = NoChain
        /\ blocks = {}
        /\ listing = NoListing

NextDrift ==
    \/ \E u \in Users, id \in KnownIds, type \in ReactionTypes :
          calls < MaxDriftCalls /\ AddReaction(u, id, type)
    \/ \E u \in Users, id \in KnownIds, type \in ReactionTypes :
          calls < MaxDriftCalls /\ RemoveReaction(u, id, type)

SpecDrift == InitDrift /\ [][NextDrift]_vars

\* ================================================================ claims
\* The counters recomputed from the rows themselves.
TrueForkCount(n) == Cardinality({m \in DOMAIN receipts : receipts[m].parent_receipt_id = n})

TrueReactionCount(n) == Sum(reactions, {k \in ReactionKeys : k[1] = n})

CountersExact ==
    \A n \in DOMAIN receipts :
        /\ receipts[n].fork_count = TrueForkCount(n)
        /\ receipts[n].reaction_count = TrueReactionCount(n)

AllDone == \A p \in Procs : procs[p].pc = "done"

\* The request that makes the next call.
Caller == CHOOSE p \in Procs : CanCall(p)

IsCall == calls' = calls + 1

\* C1: when reconcile_counts commits and no request ran at any time between its
\* first statement and its commit, every receipt's fork_count is the number of
\* receipts naming it as parent and its reaction_count the number of its
\* reaction rows, whatever creates, forks, reactions and deletes came before.
C1_ReconcileExact ==
    [][(rec.pc = "commit" /\ rec'.pc = "idle" /\ rec'.quiet) => CountersExact']_vars

C1_Witness ==
    /\ rec.pc = "idle" /\ rec.ran /\ rec.quiet /\ AllDone
    /\ calls = MaxCalls
    /\ CountersExact
    /\ \E n \in DOMAIN receipts : receipts[n].fork_count = 1
    /\ \E n \in DOMAIN receipts : receipts[n].reaction_count = 1

\* C2: a fork of an existing receipt R, run alone, returns a new receipt F with
\* F.parent_receipt_id = R, adds F and nothing else to the table, raises
\* R.fork_count by exactly 1 and leaves every other parent_receipt_id and
\* fork_count as it was.
C2_ForkLinkage ==
    [][(IsCall /\ procs'[1].op = "fork_receipt" /\ get_by_id(DB, procs'[1].receipt_id)) =>
         LET R == procs'[1].receipt_id
             F == procs'[1].new_id
         IN /\ procs'[1].result = "ok"
            /\ F \notin DOMAIN receipts
            /\ DOMAIN receipts' = DOMAIN receipts \cup {F}
            /\ receipts'[F].parent_receipt_id = R
            /\ receipts'[R].fork_count = receipts[R].fork_count + 1
            /\ \A n \in DOMAIN receipts :
                 /\ receipts'[n].parent_receipt_id = receipts[n].parent_receipt_id
                 /\ n # R => receipts'[n].fork_count = receipts[n].fork_count]_vars

C2_Witness ==
    /\ procs[1].op = "fork_receipt" /\ procs[1].result = "ok"
    /\ procs[1].new_id \in DOMAIN receipts
    /\ receipts[procs[1].new_id].parent_receipt_id = procs[1].receipt_id
    /\ receipts[procs[1].receipt_id].fork_count = 2

\* C3: add_reaction on an existing receipt, run alone, returns without error and
\* leaves exactly one row for the triple; when the row was there already (the
\* call repeats an earlier one) it returns that row and the whole store,
\* reaction_count included, is as it was before the call.
C3_AddIdempotent ==
    [][(IsCall /\ procs'[1].op = "add_reaction" /\ get_by_id(DB, procs'[1].receipt_id)) =>
         LET key == ReactionKey(procs'[1])
         IN /\ procs'[1].result = "ok"
            /\ reactions'[key] = 1
            /\ reactions[key] > 0 =>
                 /\ procs'[1].existing
                 /\ UNCHANGED <<receipts, reactions, evidence, next_id, now>>]_vars

C3_Witness ==
    /\ procs[1].op = "add_reaction" /\ procs[1].result = "ok" /\ procs[1].existing
    /\ reactions[ReactionKey(procs[1])] = 1
    /\ receipts[procs[1].receipt_id].reaction_count = 1

\* C4: in every reachable state, whatever the interleaving of the requests, the
\* reactions table holds at most one row per (receipt_id, user_id, type).
C4_ReactionUnique == \A k \in ReactionKeys : reactions[k] <= 1

\* Two add_reaction requests for one triple both passed the existing-row check,
\* and the second INSERT was refused.
C4_Witness ==
    \E p, q \in Procs :
        /\ p # q
        /\ procs[p].op = "add_reaction" /\ procs[q].op = "add_reaction"
        /\ ReactionKey(procs[p]) = ReactionKey(procs[q])
        /\ procs[p].pc = "done" /\ procs[p].result = "IntegrityError"
        /\ get_by_id(DB, procs[p].receipt_id)
        /\ ~procs[q].existing
        /\ reactions[ReactionKey(procs[p])] = 1

\* C5: two add_reaction requests for the same triple on an existing receipt,
\* interleaved in any way, both return without error and leave the single row
\* of the triple.  The second INSERT of the triple is refused by the unique
\* constraint and add_reaction does not catch the IntegrityError, so the
\* statement fails.
C5_DuplicateAddSucceeds ==
    \A p, q \in Procs :
        (/\ p # q
         /\ procs[p].op = "add_reaction" /\ procs[q].op = "add_reaction"
         /\ ReactionKey(procs[p]) = ReactionKey(procs[q])
         /\ procs[p].found /\ procs[q].found
         /\ get_by_id(DB, procs[p].receipt_id)
         /\ procs[p].pc = "done" /\ procs[q].pc = "done")
        => /\ procs[p].result = "ok" /\ procs[q].result = "ok"
           /\ reactions[ReactionKey(procs[p])] = 1

\* C6: a fork request whose parent id names no receipt when fork_receipt looks
\* it up raises ReceiptNotFoundError at once: the request is over, and no
\* receipt row, no evidence row and no fork_count was written.
C6_ForkMissingParent ==
    [][(/\ IsCall
        /\ procs'[Caller].op = "fork_receipt"
        /\ ~get_by_id(DB, procs'[Caller].receipt_id))
       => /\ procs'[Caller].pc = "done"
          /\ procs'[Caller].result = "ReceiptNotFoundError"
          /\ procs'[Caller].new_id = NULL
          /\ UNCHANGED <<receipts, reactions, evidence, next_id, now>>]_vars

\* A fork refused for want of its parent while the table holds a receipt with
\* a fork of its own.
C6_Witness ==
    \E p \in Procs :
        /\ procs[p].op = "fork_receipt" /\ procs[p].pc = "done"
        /\ procs[p].result = "ReceiptNotFoundError"
        /\ ~get_by_id(DB, procs[p].receipt_id)
        /\ \E n \in DOMAIN receipts : receipts[n].fork_count = 1

\* C7: add_reaction on an id that names no receipt raises ReceiptNotFoundError
\* and leaves the reactions table and every reaction_count as they were; and a
\* reaction row is only ever inserted by a request whose lookup found the
\* receipt.
C7_AddMissingReceipt ==
    [][/\ (/\ IsCall
           /\ procs'[Caller].op = "add_reaction"
           /\ ~get_by_id(DB, procs'[Caller].receipt_id))
          => /\ procs'[Caller].pc = "done"
             /\ procs'[Caller].result = "ReceiptNotFoundError"
             /\ UNCHANGED <<receipts, reactions, evidence, next_id, now>>
       /\ \A k \in ReactionKeys :
            reactions'[k] > reactions[k] =>
               \E p \in Procs :
                  /\ procs[p].op = "add_reaction" /\ procs[p].pc = "add_create"
                  /\ ReactionKey(procs[p]) = k
                  /\ procs[p].found
                  /\ procs'[p].pc = "urc_count"]_vars

\* add_reaction refused for an id with no receipt, while the ledger holds a row
\* of another receipt.
C7_Witness ==
    \E p \in Procs :
        /\ procs[p].op = "add_reaction" /\ procs[p].pc = "done"
        /\ procs[p].result = "ReceiptNotFoundError"
        /\ ~get_by_id(DB, procs[p].receipt_id)
        /\ \E k \in ReactionKeys :
              /\ reactions[k] = 1
              /\ get_by_id(DB, k[1])
              /\ receipts[k[1]].reaction_count = 1

\* C8: remove_reaction, run alone, raises nothing; when the triple has no row
\* (the receipt may not exist either) the whole store is as it was; when it has
\* one, that row is gone, every other reaction row is as it was and no receipt
\* is added or removed.
C8_RemoveReaction ==
    [][(IsCall /\ procs'[1].op = "remove_reaction") =>
         LET key == ReactionKey(procs'[1])
         IN /\ procs'[1].result = "ok"
            /\ IF reactions[key] = 0
               THEN /\ ~procs'[1].existing
                    /\ UNCHANGED <<receipts, reactions, evidence, next_id, now>>
               ELSE /\ procs'[1].existing
                    /\ reactions' = [reactions EXCEPT ![key] = 0]
                    /\ DOMAIN receipts' = DOMAIN receipts
                    /\ UNCHANGED <<evidence, next_id>>
                    /\ \A n \in DOMAIN receipts :
                         n # key[1] => receipts'[n] = receipts[n]]_vars

\* A row removed while the same user's row of another type on the same receipt
\* stays.
C8_Witness ==
    /\ procs[1].op = "remove_reaction" /\ procs[1].result = "ok" /\ procs[1].existing
    /\ reactions[ReactionKey(procs[1])] = 0
    /\ \E k \in ReactionKeys :
          /\ k[1] = procs[1].receipt_id /\ k[2] = procs[1].user
          /\ reactions[k] = 1

\* a is x or an ancestor of x: a path of parent_receipt_id links leads from x
\* to a.
IsAncestorOrSelf(a, x) ==
    \E n \in 1..MaxNodes :
        \E path \in [1..n -> DOMAIN receipts] :
            /\ path[1] = x
            /\ path[n] = a
            /\ \A i \in 1..(n - 1) : receipts[path[i]].parent_receipt_id = path[i + 1]

AncestorsExist(x) ==
    \A a \in DOMAIN receipts :
        IsAncestorOrSelf(a, x) =>
            \/ receipts[a].parent_receipt_id = NULL
            \/ get_by_id(DB, receipts[a].parent_receipt_id)

\* C9: for a receipt X whose ancestors all exist, get_chain(X, depth) answers
\* with the one ancestor-or-self of X that has no parent as root; and the same
\* query for any other receipt Y under that root, with the same depth, answers
\* with the same root and the same fork tree.
C9_ChainRoot ==
    (chain.called /\ chain.found /\ AncestorsExist(chain.receipt_id)) =>
        /\ get_by_id(DB, chain.root)
        /\ receipts[chain.root].parent_receipt_id = NULL
        /\ IsAncestorOrSelf(chain.root, chain.receipt_id)
        /\ \A a \in DOMAIN receipts :
              (IsAncestorOrSelf(a, chain.receipt_id) /\ receipts[a].parent_receipt_id = NULL)
                 => a = chain.root
        /\ \A Y \in DOMAIN receipts :
              IsAncestorOrSelf(chain.root, Y) =>
                 LET c == get_chain(DB, chain.rank, Y, chain.max_depth)
                 IN c.found /\ c.root = chain.root /\ c.forks = chain.forks

\* The chain asked for a fork of a fork, with depth 1: the receipt asked for is
\* deeper than the tree returned.
C9_Witness ==
    /\ chain.called /\ chain.found
    /\ chain.max_depth = 1
    /\ LET X == chain.receipt_id
       IN /\ receipts[X].parent_receipt_id # NULL
          /\ receipts[receipts[X].parent_receipt_id].parent_receipt_id = chain.root
          /\ chain.root # NULL
          /\ Len(chain.forks) = 1

\* Every list of forks in the tree is in order of reaction_count descending,
\* then created_at ascending.
RECURSIVE ForksSorted(_)
ForksSorted(forks) ==
    /\ \A i, j \in 1..Len(forks) :
          i < j =>
             LET a == receipts[forks[i].id]
                 b == receipts[forks[j].id]
             IN \/ a.reaction_count > b.reaction_count
                \/ /\ a.reaction_count = b.reaction_count
                   /\ a.created_at <= b.created_at
    /\ \A i \in 1..Len(forks) : ForksSorted(forks[i].forks)

\* C10: in the tree get_chain returns, the forks listed under the root and
\* under every fork come in order of stored reaction_count descending, then
\* created_at ascending, whatever the order they were created in.
C10_ForksOrdered == (chain.called /\ chain.found) => ForksSorted(chain.forks)

\* Two forks of the root: the one created later has reaction_count 3 and is
\* listed before the one created earlier with reaction_count 1.
C10_Witness ==
    /\ chain.called /\ chain.found
    /\ Len(chain.forks) = 2
    /\ LET F1 == receipts[chain.forks[1].id]
           F2 == receipts[chain.forks[2].id]
       IN /\ F1.reaction_count = 3 /\ F2.reaction_count = 1
          /\ F1.created_at > F2.created_at
          /\ chain.forks[1].id > chain.forks[2].id

\* The number of nodes in a nested list of forks.
RECURSIVE TreeSize(_)
TreeSize(forks) ==
    IF forks = <<>> THEN 0
    ELSE 1 + TreeSize(Head(forks).forks) + TreeSize(Tail(forks))

\* The ids at level k of a nested list of forks, its own entries being level 1.
RECURSIVE TreeLevel(_, _)
TreeLevel(forks, k) ==
    IF k = 1 THEN {forks[i].id : i \in 1..Len(forks)}
    ELSE UNION {TreeLevel(forks[i].forks, k - 1) : i \in 1..Len(forks)}

\* The receipts k parent links below a.
DescendantsAt(a, k) ==
    {x \in DOMAIN receipts :
        \E path \in [1..(k + 1) -> DOMAIN receipts] :
            /\ path[1] = x
            /\ path[k + 1] = a
            /\ \A i \in 1..k : receipts[path[i]].parent_receipt_id = path[i + 1]}

\* C11: in every get_chain answer total_in_chain is 1 plus the number of nodes
\* of the nested tree; level k of the tree holds exactly the receipts k links
\* below the root for k up to max_depth, each of them once, and nothing lies
\* below level max_depth.
C11_ChainTotal ==
    (chain.called /\ chain.found) =>
        /\ chain.total_in_chain = 1 + TreeSize(chain.forks)
        /\ \A k \in 1..(MaxNodes + 1) :
              TreeLevel(chain.forks, k) =
                 IF k <= chain.max_depth THEN DescendantsAt(chain.root, k) ELSE {}
        /\ TreeSize(chain.forks) =
              Cardinality(UNION {TreeLevel(chain.forks, k) : k \in 1..(MaxNodes + 1)})

\* A chain asked with depth 1 of a root that has a fork of a fork: the answer
\* counts the root and its fork and leaves the deeper receipt out.
C11_Witness ==
    /\ chain.called /\ chain.found
    /\ chain.max_depth = 1
    /\ chain.receipt_id = chain.root
    /\ DescendantsAt(chain.root, 2) # {}
    /\ chain.total_in_chain = 2

\* The ids of the last list answer.
Listed == {listing.receipts[i] : i \in 1..Len(listing.receipts)}

StoredScore(n) == receipts[n].reaction_count + 2 * receipts[n].fork_count

\* Receipt a ranks at or above receipt b for trending.
RanksAtOrAbove(a, b) ==
    \/ StoredScore(a) > StoredScore(b)
    \/ StoredScore(a) = StoredScore(b) /\ receipts[a].created_at >= receipts[b].created_at

\* The receipts that qualify for trending over the last hours.
TrendingQualified(hours) ==
    {n \in DOMAIN receipts :
        receipts[n].visibility = "public" /\ receipts[n].created_at >= now - hours}

\* C12: get_trending(limit, hours) lists public receipts created at or after
\* now - hours, each once, in order of stored reaction_count + 2 * fork_count
\* descending, then created_at descending; it lists limit of them or all of
\* them, and a qualifying receipt is left out only when limit listed receipts
\* rank at or above it.
C12_TrendingOrder ==
    listing.op = "get_trending" =>
        LET Q == TrendingQualified(listing.hours)
            out == listing.receipts
        IN /\ Listed \subseteq Q
           /\ Cardinality(Listed) = Len(out)
           /\ Len(out) = IF Cardinality(Q) < listing.limit THEN Cardinality(Q) ELSE listing.limit
           /\ \A i, j \in 1..Len(out) : i < j => RanksAtOrAbove(out[i], out[j])
           /\ \A x \in Q \ Listed :
                 /\ Len(out) = listing.limit
                 /\ \A y \in Listed : RanksAtOrAbove(y, x)

\* A window of 1 with room for 2: the public receipt created before the window
\* is left out although the limit is not reached, and of the two listed the
\* one with the higher score comes first although it has the lower id.
C12_Witness ==
    /\ listing.op = "get_trending" /\ listing.hours = 1 /\ listing.limit = 2
    /\ Len(listing.receipts) = 2
    /\ StoredScore(listing.receipts[1]) > StoredScore(listing.receipts[2])
    /\ \E n \in DOMAIN receipts :
          /\ receipts[n].visibility = "public"
          /\ receipts[n].created_at < now - 1
          /\ n \notin Listed
          /\ StoredScore(n) > StoredScore(listing.receipts[1])

\* C13: every receipt get_trending lists is a root, parent_receipt_id NULL.
\* The query has no condition on parent_receipt_id, so a public fork inside the
\* window is listed like any other receipt and the statement fails.
C13_TrendingRootsOnly ==
    listing.op = "get_trending" =>
        \A n \in Listed : receipts[n].parent_receipt_id = NULL

\* The receipts the feed of viewer user is made of: public, and not by an
\* author the viewer blocks.
FeedQualified(user) ==
    {n \in DOMAIN receipts :
        /\ receipts[n].visibility = "public"
        /\ user # NULL => <<user, receipts[n].author_id>> \notin blocks}

\* A step that answers a feed request.
FeedAnswered == listing' # listing /\ listing'.op = "get_feed" /\ blocks' = blocks

\* C14: the page at skip 0 and, asked next with nothing written in between,
\* the page at skip L of the same viewer and limit L share no receipt when at
\* least 2L receipts qualify.  The query orders by created_at alone, so two
\* receipts with one created_at may swap places between the two queries and
\* the statement fails.
C14_PagesDisjoint ==
    [][(/\ listing.op = "get_feed" /\ listing.skip = 0
        /\ FeedAnswered
        /\ listing'.user = listing.user
        /\ listing'.limit = listing.limit
        /\ listing'.skip = listing.limit
        /\ Cardinality(FeedQualified(listing.user)) >= 2 * listing.limit)
       => \A i \in 1..Len(listing.receipts), j \in 1..Len(listing'.receipts) :
             listing.receipts[i] # listing'.receipts[j]]_vars

\* C15: the feed and the by-author listing are ordered by created_at
\* descending with ties broken by id, so the answer to a request is the same
\* whatever order the engine scans the rows in.  Neither query names id in its
\* ORDER BY, so the statement fails.
C15_ListOrderTotal ==
    [][(/\ listing' # listing
        /\ listing'.op \in {"get_feed", "get_by_author"}
        /\ blocks' = blocks)
       => /\ \A i, j \in 1..Len(listing'.receipts) :
                i < j => receipts[listing'.receipts[i]].created_at
                            >= receipts[listing'.receipts[j]].created_at
          /\ \A rank \in Ranks :
                listing' =
                   IF listing'.op = "get_feed"
                   THEN get_feed(DB, blocks, rank, listing'.user, listing'.skip, listing'.limit)
                   ELSE get_user_receipts(DB, rank, listing'.user, listing'.skip,
                                          listing'.limit)]_vars

\* C16: a feed answer holds at most limit receipts; has_more is true exactly
\* when more than skip + limit receipts qualify, and next_cursor is skip + limit
\* then and absent otherwise.
C16_FeedPagination ==
    [][FeedAnswered =>
         LET a == listing'
             total == Cardinality(FeedQualified(a.user))
         IN /\ Len(a.receipts) <= a.limit
            /\ a.has_more <=> total > a.skip + a.limit
            /\ a.has_more => a.next_cursor = a.skip + a.limit
            /\ ~a.has_more => a.next_cursor = NULL]_vars

\* The second of three pages of one receipt each.
C16_Witness ==
    /\ listing.op = "get_feed" /\ listing.skip = 1 /\ listing.limit = 1
    /\ Len(listing.receipts) = 1
    /\ listing.has_more /\ listing.next_cursor = 2

\* C17: a feed answer never holds a receipt whose author the viewer blocks at
\* the time, nor one that is not public; without a viewer, or for a viewer who
\* blocks nobody, every public receipt counts: the answer has as many receipts
\* as the public ones leave after skip, up to limit.
C17_FeedBlocking ==
    [][FeedAnswered =>
         LET a == listing'
             public == {n \in DOMAIN receipts : receipts[n].visibility = "public"}
             rest == IF Cardinality(public) > a.skip THEN Cardinality(public) - a.skip ELSE 0
         IN /\ \A i \in 1..Len(a.receipts) :
                 /\ receipts[a.receipts[i]].visibility = "public"
                 /\ a.user # NULL => <<a.user, receipts[a.receipts[i]].author_id>> \notin blocks
            /\ (a.user = NULL \/ \A u \in Users : <<a.user, u>> \notin blocks)
                 => Len(a.receipts) = IF rest < a.limit THEN rest ELSE a.limit]_vars

\* The feed of a viewer who blocks the other user and is blocked back: a
\* public receipt of the blocked author is left out although the page has room,
\* and a receipt of the viewer is listed.
C17_Witness ==
    /\ listing.op = "get_feed" /\ listing.user = 1 /\ listing.skip = 0
    /\ blocks = {<<1, 2>>, <<2, 1>>}
    /\ Len(listing.receipts) = 1 /\ listing.limit = 2
    /\ receipts[listing.receipts[1]].author_id = 1
    /\ \E n \in DOMAIN receipts :
          receipts[n].visibility = "public" /\ receipts[n].author_id = 2

\* The commit of a reconciliation run.
ReconcileCommits == rec.pc = "commit" /\ rec'.pc = "idle"

\* C18: a reconciliation run writes nothing but reaction_count and fork_count;
\* and a run that follows another with no request running a statement from the
\* first statement of the one to the commit of the other leaves every counter,
\* and so the whole store, as the first run left it.
C18_ReconcileIdempotent ==
    [][ReconcileCommits =>
         /\ UNCHANGED <<reactions, evidence, next_id, now, blocks>>
         /\ DOMAIN receipts' = DOMAIN receipts
         /\ \A n \in DOMAIN receipts :
               receipts'[n] = [receipts[n] EXCEPT
                                  !.reaction_count = receipts'[n].reaction_count,
                                  !.fork_count = receipts'[n].fork_count]
         /\ (rec.again /\ rec'.quiet) => UNCHANGED receipts]_vars

\* A second run in a row has committed on a store with a reaction and a fork.
C18_Witness ==
    /\ rec.pc = "idle" /\ rec.ran /\ rec.quiet /\ rec.again
    /\ \E n \in DOMAIN receipts : receipts[n].reaction_count = 1
    /\ \E n \in DOMAIN receipts : receipts[n].fork_count = 1

\* The receipts whose stored counters differ from the rows.
ReactionCountWrong == {n \in DOMAIN receipts : receipts[n].reaction_count # TrueReactionCount(n)}

ForkCountWrong == {n \in DOMAIN receipts : receipts[n].fork_count # TrueForkCount(n)}

\* C19 as stated: a run with no request beside it reports as reaction_rows the
\* number of receipts whose reaction_count was wrong before it and as fork_rows
\* the number whose fork_count was wrong, so 0 and 0 when it repeats a run.
\* rowcount is the number of rows the UPDATE matched, and the UPDATEs have no
\* WHERE, so the statement fails on any store with a receipt.
C19_RowsFixed ==
    [][(ReconcileCommits /\ rec'.quiet) =>
         /\ rec'.reaction_rows = Cardinality(ReactionCountWrong)
         /\ rec'.fork_rows = Cardinality(ForkCountWrong)]_vars

\* C19 amended: each UPDATE reports the number of receipts in the table when
\* it runs, whatever their counters were; a run with no request beside it
\* reports the size of the table twice, also when it repeats a run.
C19_RowsMatched ==
    [][/\ (rec.pc = "idle" /\ rec'.pc = "fork_update")
             => rec'.reaction_rows = Cardinality(DOMAIN receipts)
       /\ (rec.pc = "fork_update" /\ rec'.pc = "commit")
             => /\ rec'.fork_rows = Cardinality(DOMAIN receipts)
                /\ rec'.reaction_rows = rec.reaction_rows
       /\ ReconcileCommits
             => /\ rec'.reaction_rows = rec.reaction_rows
                /\ rec'.fork_rows = rec.fork_rows
                /\ rec'.quiet => /\ rec'.reaction_rows = Cardinality(DOMAIN receipts)
                                 /\ rec'.fork_rows = Cardinality(DOMAIN receipts)]_vars

\* A repeated run on a store of two receipts with exact counters reports 2 and
\* 2.
C19_Witness ==
    /\ rec.pc = "idle" /\ rec.ran /\ rec.quiet /\ rec.again
    /\ Cardinality(DOMAIN receipts) = 2
    /\ ReactionCountWrong = {} /\ ForkCountWrong = {}
    /\ rec.reaction_rows = 2 /\ rec.fork_rows = 2

\* C20: delete_receipt of an existing receipt N by its author or a moderator,
\* run alone, removes N and every reaction row of N, no other receipt and no
\* reaction row of another receipt; and a request that looks up an id with no
\* receipt, N after its delete included, gets ReceiptNotFoundError.
C20_DeleteEffects ==
    [][/\ (/\ IsCall
           /\ procs'[1].op = "delete_receipt"
           /\ get_by_id(DB, procs'[1].receipt_id)
           /\ \/ receipts[procs'[1].receipt_id].author_id = procs'[1].user
              \/ is_moderator(procs'[1].user))
          => LET N == procs'[1].receipt_id
             IN /\ procs'[1].result = "ok"
                /\ DOMAIN receipts' = DOMAIN receipts \ {N}
                /\ ~get_by_id([receipts |-> receipts'], N)
                /\ \A k \in ReactionKeys :
                      reactions'[k] = IF k[1] = N THEN 0 ELSE reactions[k]
       /\ (/\ IsCall
           /\ procs'[1].op \in {"delete_receipt", "fork_receipt", "add_reaction"}
           /\ ~get_by_id(DB, procs'[1].receipt_id))
          => procs'[1].result = "ReceiptNotFoundError"]_vars

\* Receipt 1 was deleted; its fork, receipt 2, is still there with its
\* reaction.
C20_Witness ==
    /\ procs[1].op = "delete_receipt" /\ procs[1].result = "ok"
    /\ procs[1].receipt_id = 1
    /\ ~get_by_id(DB, 1)
    /\ get_by_id(DB, 2)
    /\ \E k \in ReactionKeys : k[1] = 2 /\ reactions[k] = 1
    /\ \A k \in ReactionKeys : k[1] = 1 => reactions[k] = 0

\* A delete_receipt of an existing receipt by its author or a moderator.
IsDelete ==
    /\ IsCall
    /\ procs'[1].op = "delete_receipt"
    /\ get_by_id(DB, procs'[1].receipt_id)
    /\ \/ receipts[procs'[1].receipt_id].author_id = procs'[1].user
       \/ is_moderator(procs'[1].user)

\* C21 as stated: after delete_receipt of P every receipt that forked P is
\* still in the table with parent_receipt_id = P, a reference to no row.  The
\* unit of work sets the parent_receipt_id of the loaded forks to NULL before it
\* deletes P, so the statement fails whenever P has a fork.
C21_ChildrenDangling ==
    [][IsDelete =>
         \A c \in Forks(DB, procs'[1].receipt_id) :
             /\ c \in DOMAIN receipts'
             /\ receipts'[c].parent_receipt_id = procs'[1].receipt_id]_vars

\* C21 amended: after delete_receipt of P, run alone, every receipt that forked
\* P is still in the table and is a root: its parent_receipt_id is NULL, not P
\* and not P's parent, and nothing else of it has changed; every other receipt
\* but P is as it was, and no parent_receipt_id names a missing receipt.
C21_ChildrenBecomeRoots ==
    [][IsDelete =>
         LET P == procs'[1].receipt_id
         IN /\ procs'[1].forks = Forks(DB, P)
            /\ DOMAIN receipts' = DOMAIN receipts \ {P}
            /\ \A c \in DOMAIN receipts' :
                  receipts'[c] =
                     IF receipts[c].parent_receipt_id = P
                     THEN [receipts[c] EXCEPT !.parent_receipt_id = NULL]
                     ELSE receipts[c]
            /\ \A c \in DOMAIN receipts' :
                  receipts'[c].parent_receipt_id \in DOMAIN receipts' \cup {NULL}]_vars

\* Receipt 2, itself a fork of receipt 1, was deleted while receipt 3 was its
\* fork: receipt 3 is now a root and receipt 1 is still there.
C21_Witness ==
    /\ procs[1].op = "delete_receipt" /\ procs[1].result = "ok"
    /\ procs[1].receipt_id = 2
    /\ procs[1].forks = {3}
    /\ get_by_id(DB, 1) /\ get_by_id(DB, 3) /\ ~get_by_id(DB, 2)
    /\ receipts[1].fork_count = 1
    /\ receipts[3].parent_receipt_id = NULL

\* C22: every get_chain request that has loaded its receipt answers, whatever
\* the table holds, rows whose parent_receipt_id values form a cycle included.
\* The while loop has no hop count and tests nothing but root.parent_receipt_id
\* and the parent's existence, so on a cycle it goes round for ever and the
\* statement fails.
C22_WalkTerminates == (chain.pc = "walk") ~> (chain.pc = "done")

\* Requests p and q are fork_receipt calls on the same parent, both returned,
\* and the parent and both new receipts are in the table.
TwoForksDone(p, q) ==
    /\ p # q
    /\ procs[p].op = "fork_receipt" /\ procs[q].op = "fork_receipt"
    /\ procs[p].receipt_id = procs[q].receipt_id
    /\ procs[p].pc = "done" /\ procs[q].pc = "done"
    /\ procs[p].found /\ procs[q].found
    /\ get_by_id(DB, procs[p].receipt_id)
    /\ get_by_id(DB, procs[p].new_id) /\ get_by_id(DB, procs[q].new_id)

\* C23: the write of increment_fork_count stores the fork_count the request
\* read earlier plus 1, whatever the row holds by then, so two concurrent forks
\* of P that both read the same value leave P.fork_count raised by 1 with two
\* new children; and two forks of one parent that both went through return
\* without error, each with its own child of P.
C23_LostIncrement ==
    [][/\ \A p \in Procs :
             (/\ procs[p].pc = "fork_incr_write"
              /\ procs'[p].pc = "done"
              /\ get_by_id(DB, procs[p].receipt_id))
             => receipts'[procs[p].receipt_id].fork_count = procs[p].count + 1
       /\ \A p, q \in Procs :
             TwoForksDone(p, q)' =>
                /\ procs'[p].result = "ok" /\ procs'[q].result = "ok"
                /\ procs'[p].new_id # procs'[q].new_id
                /\ receipts'[procs'[p].new_id].parent_receipt_id = procs'[p].receipt_id
                /\ receipts'[procs'[q].new_id].parent_receipt_id = procs'[p].receipt_id]_vars

\* Two forks of receipt 1 both returned ok, receipt 1 has two forks and
\* fork_count 1, and reconcile_counts never ran.
C23_Witness ==
    /\ rec.pc = "idle" /\ ~rec.ran
    /\ \E p, q \in Procs :
          /\ TwoForksDone(p, q)
          /\ procs[p].result = "ok" /\ procs[q].result = "ok"
          /\ TrueForkCount(procs[p].receipt_id) = 2
          /\ receipts[procs[p].receipt_id].fork_count = 1

\* An add_reaction that inserts a row on the existing receipt it names.
AddCreates ==
    /\ IsCall
    /\ procs'[1].op = "add_reaction"
    /\ get_by_id(DB, procs'[1].receipt_id)
    /\ reactions[ReactionKey(procs'[1])] = 0

\* A remove_reaction that deletes a row of the existing receipt it names.
RemoveDeletes ==
    /\ IsCall
    /\ procs'[1].op = "remove_reaction"
    /\ get_by_id(DB, procs'[1].receipt_id)
    /\ reactions[ReactionKey(procs'[1])] > 0

\* C24 as stated: an add_reaction that inserts a row leaves reaction_count at
\* its stored value before the call plus 1, a remove_reaction that deletes one
\* at that value minus 1, also when the stored value was not the number of
\* rows.  update_reaction_count writes a fresh COUNT of the rows, so on a
\* receipt whose counter had drifted the statement fails.
C24_CountStepsByOne ==
    [][/\ AddCreates =>
             receipts'[procs'[1].receipt_id].reaction_count =
                receipts[procs'[1].receipt_id].reaction_count + 1
       /\ RemoveDeletes =>
             receipts'[procs'[1].receipt_id].reaction_count =
                receipts[procs'[1].receipt_id].reaction_count - 1]_vars

\* C24 amended: an add_reaction that inserts a row, run alone, returns ok and
\* leaves reaction_count at the number of reaction rows the receipt had before
\* the call plus 1; a remove_reaction that deletes one, at that number minus 1;
\* the change from the stored value is +1 or -1 exactly when the stored value
\* was the number of rows.
C24_CountFollowsRows ==
    [][/\ AddCreates =>
             LET N == procs'[1].receipt_id
             IN /\ procs'[1].result = "ok" /\ ~procs'[1].existing
                /\ procs'[1].stored = receipts[N].reaction_count
                /\ receipts'[N].reaction_count = TrueReactionCount(N) + 1
                /\ (receipts'[N].reaction_count = receipts[N].reaction_count + 1)
                      <=> (receipts[N].reaction_count = TrueReactionCount(N))
       /\ RemoveDeletes =>
             LET N == procs'[1].receipt_id
             IN /\ procs'[1].result = "ok" /\ procs'[1].existing
                /\ procs'[1].stored = receipts[N].reaction_count
                /\ receipts'[N].reaction_count = TrueReactionCount(N) - 1
                /\ (receipts'[N].reaction_count = receipts[N].reaction_count - 1)
                      <=> (receipts[N].reaction_count = TrueReactionCount(N))]_vars

\* An add_reaction inserted the third row of a receipt whose reaction_count
\* was 0 when update_reaction_count loaded it: the counter went from 0 to 3.
C24_Witness ==
    /\ procs[1].op = "add_reaction" /\ procs[1].result = "ok" /\ ~procs[1].existing
    /\ procs[1].stored = 0
    /\ get_by_id(DB, procs[1].receipt_id)
    /\ reactions[ReactionKey(procs[1])] = 1
    /\ TrueReactionCount(procs[1].receipt_id) = 3
    /\ receipts[procs[1].receipt_id].reaction_count = 3

\* C25: a get_chain request answers not found exactly when the id it names has
\* no receipt.  For an existing receipt X it answers with the root the walk
\* stopped at: an ancestor-or-self of X whose parent_receipt_id is NULL or names
\* no receipt, every receipt on the way up to it having a parent that could be
\* loaded; and the fork tree is the one beneath that root.
C25_ChainOfBrokenLine ==
    chain.pc = "done" =>
        /\ chain.found <=> get_by_id(DB, chain.receipt_id)
        /\ chain.found =>
              /\ get_by_id(DB, chain.root)
              /\ IsAncestorOrSelf(chain.root, chain.receipt_id)
              /\ \/ receipts[chain.root].parent_receipt_id = NULL
                 \/ ~get_by_id(DB, receipts[chain.root].parent_receipt_id)
              /\ \A a \in DOMAIN receipts \ {chain.root} :
                    (IsAncestorOrSelf(a, chain.receipt_id) /\ IsAncestorOrSelf(chain.root, a))
                       => get_by_id(DB, receipts[a].parent_receipt_id)
              /\ chain.total_in_chain = 1 + TreeSize(chain.forks)
              /\ \A k \in 1..(MaxNodes + 1) :
                    TreeLevel(chain.forks, k) =
                       IF k <= chain.max_depth THEN DescendantsAt(chain.root, k) ELSE {}

\* The chain asked for a fork of receipt R, R's own parent naming no receipt:
\* the walk went one hop up, stopped at R and answered with R as root and the
\* fork beneath it.
C25_Witness ==
    /\ chain.pc = "done" /\ chain.found
    /\ chain.root # chain.receipt_id
    /\ receipts[chain.receipt_id].parent_receipt_id = chain.root
    /\ receipts[chain.root].parent_receipt_id # NULL
    /\ ~get_by_id(DB, receipts[chain.root].parent_receipt_id)
    /\ Len(chain.forks) = 1 /\ chain.forks[1].id = chain.receipt_id

\* No receipt has been deleted: every id handed out is in the table.
NoDeleteYet == DOMAIN receipts = 1..(next_id - 1)

\* reconcile_counts has not run a statement.
NeverReconciled == rec.pc = "idle" /\ ~rec.ran

ForkCountWithinForks ==
    \A n \in DOMAIN receipts : receipts[n].fork_count <= TrueForkCount(n)

TwoReactionsDone(p, q) ==
    /\ p # q
    /\ procs[p].op \in {"add_reaction", "remove_reaction"}
    /\ procs[q].op \in {"add_reaction", "remove_reaction"}
    /\ procs[p].receipt_id = procs[q].receipt_id
    /\ ReactionKey(procs[p]) # ReactionKey(procs[q])
    /\ procs[p].pc = "done" /\ procs[q].pc = "done"
    /\ get_by_id(DB, procs[p].receipt_id)

\* C27 as stated: once concurrent add_reaction / remove_reaction requests on a
\* receipt N for different users or types have all returned, reaction_count of
\* N is the number of N's reaction rows, in every interleaving.  A request
\* that counted before another's insert and writes after the other's write
\* leaves its older count in the column, so the statement fails.
C27_ConcurrentCountExact ==
    \A p, q \in Procs :
        (TwoReactionsDone(p, q) /\ NeverReconciled /\ NoDeleteYet) =>
            receipts[procs[p].receipt_id].reaction_count = TrueReactionCount(procs[p].receipt_id)

\* C27 amended: update_reaction_count takes as count the number of the
\* receipt's rows at its SELECT and later writes that number to reaction_count
\* whatever the rows are by then; so after concurrent requests the column
\* holds the count of the request that wrote last, which is the number of
\* rows only if no insert or delete on N came between that count and the end.
C27_LastCountWins ==
    [][\A p \in Procs :
          /\ (procs[p].pc = "urc_count" /\ procs'[p].pc = "urc_write")
                => /\ procs'[p].count = TrueReactionCount(procs[p].receipt_id)
                   /\ UNCHANGED <<receipts, reactions>>
          /\ (procs[p].pc = "urc_write" /\ procs'[p].pc = "done"
                 /\ get_by_id(DB, procs[p].receipt_id))
                => /\ receipts'[procs[p].receipt_id].reaction_count = procs[p].count
                   /\ procs'[p].result = "ok"
                   /\ UNCHANGED reactions]_vars

\* Two add_reaction requests by different users on receipt 1 have both
\* returned ok, receipt 1 has two reaction rows and reaction_count 1, and
\* nothing was deleted or reconciled.
C27_Witness ==
    /\ NeverReconciled /\ NoDeleteYet
    /\ \E p, q \in Procs :
          /\ TwoReactionsDone(p, q)
          /\ procs[p].op = "add_reaction" /\ procs[q].op = "add_reaction"
          /\ procs[p].result = "ok" /\ procs[q].result = "ok"
          /\ procs[p].user # procs[q].user
          /\ procs[p].receipt_id = 1
    /\ TrueReactionCount(1) = 2
    /\ receipts[1].reaction_count = 1

\* Receipt a is reached from receipt x by one to hops parent_receipt_id links.
RECURSIVE ReachedFrom(_, _, _)
ReachedFrom(a, x, hops) ==
    LET parent == receipts[x].parent_receipt_id
    IN /\ hops > 0
       /\ parent \in DOMAIN receipts
       /\ (parent = a \/ ReachedFrom(a, parent, hops - 1))

\* No receipt is its own ancestor.
Acyclic == \A x \in DOMAIN receipts : ~ReachedFrom(x, x, MaxNodes)

\* The while loop of get_chain, entered with root, is left after at most
\* passes passes.
RECURSIVE LeavesLoop(_, _)
LeavesLoop(root, passes) ==
    \/ ~loop_goes_on(DB, root)
    \/ passes > 0 /\ LeavesLoop(receipts[root].parent_receipt_id, passes - 1)

WalkEnds == \A x \in DOMAIN receipts : LeavesLoop(x, MaxNodes)

\* C28: in every state the requests and reconcile_counts reach, in any
\* interleaving, no receipt is its own ancestor and the walk of get_chain ends
\* from every receipt; and no step gives a receipt a parent_receipt_id naming
\* another receipt than the one it was created with (a delete sets it to NULL).
C28_ParentAcyclic ==
    [][/\ Acyclic'
       /\ WalkEnds'
       /\ \A n \in DOMAIN receipts \cap DOMAIN receipts' :
             receipts'[n].parent_receipt_id \in {receipts[n].parent_receipt_id, NULL}
       /\ \A n \in DOMAIN receipts' \ DOMAIN receipts :
             receipts'[n].parent_receipt_id # n]_vars

\* A fork raced the delete of its parent: receipt 2 names receipt 1, which is
\* gone, reconcile_counts has run, and the walk from receipt 2 takes the break.
C28_Witness ==
    /\ AllDone /\ rec.pc = "idle" /\ rec.ran
    /\ get_by_id(DB, 2) /\ ~get_by_id(DB, 1)
    /\ receipts[2].parent_receipt_id = 1
    /\ Acyclic /\ WalkEnds

\* A delete_receipt by the author or a moderator, or a moderator's content
\* removal, of a receipt that is a fork of a receipt in the table.
IsForkDelete ==
    /\ IsCall
    /\ get_by_id(DB, procs'[1].receipt_id)
    /\ \/ /\ procs'[1].op = "delete_receipt"
          /\ \/ receipts[procs'[1].receipt_id].author_id = procs'[1].user
             \/ is_moderator(procs'[1].user)
       \/ /\ procs'[1].op = "take_action"
          /\ is_moderator(procs'[1].user)
    /\ get_by_id(DB, receipts[procs'[1].receipt_id].parent_receipt_id)

\* fork_count of n less the number of receipts naming n as parent, in the
\* receipts table r.
ForkExcess(r, n) ==
    r[n].fork_count - Cardinality({m \in DOMAIN r : r[m].parent_receipt_id = n})

C30_CallRepairsCount ==
    [][(AddCreates \/ RemoveDeletes) =>
         LET N == procs'[1].receipt_id
             key == ReactionKey(procs'[1])
         IN /\ procs'[1].result = "ok"
            /\ reactions' = [reactions EXCEPT ![key] = IF AddCreates THEN 1 ELSE 0]
            /\ receipts'[N].reaction_count = Sum(reactions', KeysOf(N))
            /\ receipts'[N] = [receipts[N] EXCEPT !.reaction_count = Sum(reactions', KeysOf(N))]]_vars

\* A remove_reaction deleted one of two rows of a receipt whose reaction_count
\* was 4 when update_reaction_count loaded it: the column now holds 1, the
\* number of rows left.
C30_Witness ==
    /\ procs[1].op = "remove_reaction" /\ procs[1].result = "ok" /\ procs[1].existing
    /\ procs[1].stored = 4
    /\ get_by_id(DB, procs[1].receipt_id)
    /\ TrueReactionCount(procs[1].receipt_id) = 1
    /\ receipts[procs[1].receipt_id].reaction_count = 1

====
